---- MODULE Spec2Model ----
(***************************************************************************)
(* LazyCurl (src/src/main.rs): the interactive session of main() -- setup  *)
(* of the terminal, the draw / poll / read / dispatch loop, the teardown   *)
(* -- and the request executor make_request().                             *)
(*                                                                         *)
(* Strings the program edits or compares character by character (the URL   *)
(* buffer, the body) are sequences of one-character strings.  An Option    *)
(* value is a sequence of length 0 (None) or 1 (Some).  A HashMap is the   *)
(* set of its <<key, value>> pairs.                                        *)
(***************************************************************************)
EXTENDS Integers, Sequences, FiniteSets, TLC

VARIABLES
    pc,               \* position of main(): see PcSession / PcExec
    exit,             \* "none" while running, then the Result main returned
    raw_mode,         \* terminal is in raw mode
    alt_screen,       \* terminal shows the alternate screen
    raw_releases,     \* successful disable_raw_mode() calls so far
    alt_releases,     \* successful LeaveAlternateScreen executions so far
    input,            \* URL Input (main.rs:25)
    selected_method,  \* Method Selection (main.rs:26)
    headers,          \* Header Set (main.rs:27)
    params,           \* Param Set (main.rs:28)
    body,             \* Body Text (main.rs:29)
    response_text,    \* Response Text (main.rs:32)
    options_mode,     \* Options View Mode (main.rs:33)
    queue,            \* terminal events that arrived and were not read yet
    event,            \* the event the latest event::read() returned
    call,             \* arguments of the make_request call in progress
    inflight,         \* request handed to the transport by that call
    ncalls,           \* make_request calls made so far
    transport,        \* what the transport did with the latest request sent
    frame             \* what the latest terminal.draw() put on the screen

vars == <<pc, exit, raw_mode, alt_screen, raw_releases, alt_releases,
          input, selected_method, headers, params, body, response_text,
          options_mode, queue, event, call, inflight, ncalls, transport,
          frame>>

----------------------------------------------------------------------------
(* Bounds of the model *)

MaxLen == 2          \* longest URL Input typed
MaxPending == 1      \* most events waiting in the terminal's input queue
MaxRequests == 2     \* most make_request calls of one session

----------------------------------------------------------------------------
(* Values *)

None == <<>>
Some(x) == <<x>>

\* variant: one token of the list is misspelt
methods_typo == <<"GET", "POST", "PUT", "DELETE", "Patch">>

methods == <<"GET", "POST", "PUT", "DELETE", "PATCH">>

Placeholder == "Response will appear here..."
InvalidMethod == "Invalid Method"
FailedRequest == "Failed to make request"

\* characters the keyboard can produce as KeyCode::Char(c)
Chars == {"H", "B", "P", "a", "/"}

KeyEvent(code) == [type |-> "Key", code |-> code, ch |-> ""]
CharEvent(c) == [type |-> "Key", code |-> "Char", ch |-> c]
ResizeEvent == [type |-> "Resize", code |-> "", ch |-> ""]

\* KeyCode::Tab stands for every key code the match has no arm for
Events == {KeyEvent(k) : k \in {"Esc", "Up", "Down", "Enter", "Backspace", "Tab"}}
          \cup {CharEvent(c) : c \in Chars}
          \cup {ResizeEvent}

\* what the transport does with a request that was sent
Payloads == {"ok"}
Outcomes == {[kind |-> "send_err", payload |-> ""],
             [kind |-> "text_err", payload |-> ""]}
            \cup {[kind |-> "ok", payload |-> p] : p \in Payloads}

IsChar(e) == e.type = "Key" /\ e.code = "Char"
IsEnter(e) == e.type = "Key" /\ e.code = "Enter"

PendingChars(q) == Cardinality({i \in 1..Len(q) : IsChar(q[i])})
PendingEnters(q) == Cardinality({i \in 1..Len(q) : IsEnter(q[i])})

----------------------------------------------------------------------------
(* make_request (main.rs:161-189) *)

\* variant: an unrecognized token falls back to GET
NewRequest_defaultGet(method, url) ==
    IF method \in {"POST", "PUT", "DELETE", "PATCH"}
    THEN Some([method |-> method, url |-> url, headers |-> {}, body |-> None])
    ELSE Some([method |-> "GET", url |-> url, headers |-> {}, body |-> None])

\* the match on the method token: a request builder, or the early return
NewRequest(method, url) ==
    IF method \in {"GET", "POST", "PUT", "DELETE", "PATCH"}
    THEN Some([method |-> method, url |-> url, headers |-> {}, body |-> None])
    ELSE None

AttachHeaders(request, hs) ==
    [request EXCEPT !.headers = @ \cup hs]

\* variant: an empty body is not attached
AttachBody_skipEmpty(request, method, b) ==
    IF method # "GET" /\ b # <<>>
    THEN [request EXCEPT !.body = Some(b)] ELSE request

AttachBody(request, method, b) ==
    IF method # "GET" THEN [request EXCEPT !.body = Some(b)] ELSE request

\* the request make_request hands to send(), None when it returns early
BuildRequest(method, url, hs, b) ==
    LET r == NewRequest(method, url)
    IN  IF r = None THEN None
        ELSE Some(AttachBody(AttachHeaders(r[1], hs), method, b))

\* variant: only a failed send is replaced by the sentinel
SendAndDecode_textErrEmpty(outcome) ==
    IF outcome.kind = "ok" THEN outcome.payload
    ELSE IF outcome.kind = "send_err" THEN FailedRequest ELSE ""

\* send().and_then(text).unwrap_or_else(..)
SendAndDecode(outcome) ==
    IF outcome.kind = "ok" THEN outcome.payload ELSE FailedRequest

\* the transport's answer to the request sent; no answer when none was sent
Answer(request, outcome) ==
    IF request = None THEN None ELSE Some(outcome)

make_request(method, url, hs, b, outcome) ==
    IF BuildRequest(method, url, hs, b) = None
    THEN InvalidMethod
    ELSE SendAndDecode(outcome)

----------------------------------------------------------------------------
(* main (main.rs:17-158): setup *)

Init ==
    /\ pc = "enable_raw"
    /\ exit = "none"
    /\ raw_mode = FALSE
    /\ alt_screen = FALSE
    /\ raw_releases = 0
    /\ alt_releases = 0
    /\ input = <<>>
    /\ selected_method = 0
    /\ headers = {}
    /\ params = {}
    /\ body = <<>>
    /\ response_text = Placeholder
    /\ options_mode = 0
    /\ queue = <<>>
    /\ event = None
    /\ call = None
    /\ inflight = None
    /\ ncalls = 0
    /\ transport = None
    /\ frame = None

session == <<input, selected_method, headers, params, body, response_text,
             options_mode>>
terminal == <<raw_mode, alt_screen, raw_releases, alt_releases>>
executor == <<call, inflight, ncalls, transport>>

\* a `?` that propagates an Err out of main
ReturnErr ==
    /\ pc' = "done"
    /\ exit' = "Err"

EnableRawModeOk ==
    /\ pc = "enable_raw"
    /\ raw_mode' = TRUE
    /\ pc' = "enter_alt"
    /\ UNCHANGED <<frame, event, exit, alt_screen, raw_releases, alt_releases,
                   session, queue, executor>>

EnableRawModeErr ==
    /\ pc = "enable_raw"
    /\ ReturnErr
    /\ UNCHANGED <<frame, event, terminal, session, queue, executor>>

EnterAlternateScreenOk ==
    /\ pc = "enter_alt"
    /\ alt_screen' = TRUE
    /\ pc' = "new_terminal"
    /\ UNCHANGED <<frame, event, exit, raw_mode, raw_releases, alt_releases,
                   session, queue, executor>>

EnterAlternateScreenErr ==
    /\ pc = "enter_alt"
    /\ ReturnErr
    /\ UNCHANGED <<frame, event, terminal, session, queue, executor>>

TerminalNewOk ==
    /\ pc = "new_terminal"
    /\ pc' = "draw"
    /\ UNCHANGED <<frame, event, exit, terminal, session, queue, executor>>

TerminalNewErr ==
    /\ pc = "new_terminal"
    /\ ReturnErr
    /\ UNCHANGED <<frame, event, terminal, session, queue, executor>>

----------------------------------------------------------------------------
(* the terminal's input queue: the user presses a key, the window resizes *)

Arrive ==
    /\ pc \in {"draw", "poll", "read", "request"}
    /\ Len(queue) < MaxPending
    /\ \E e \in Events :
          /\ IsChar(e) => Len(input) + PendingChars(queue) < MaxLen
          /\ IsEnter(e) => ncalls + PendingEnters(queue) < MaxRequests
          /\ queue' = Append(queue, e)
    /\ UNCHANGED <<frame, event, pc, exit, terminal, session, executor>>

----------------------------------------------------------------------------
(* main: the loop (main.rs:35-151) *)

\* the widgets the draw closure renders from the bindings (main.rs:59-115)
Render ==
    [method_box |-> [items |-> methods, highlighted |-> selected_method],
     input_box |-> input,
     options_box |->
        IF options_mode = 0
        THEN [label |-> "Headers", map |-> headers, text |-> <<>>]
        ELSE IF options_mode = 1
        THEN [label |-> "Body", map |-> {}, text |-> body]
        ELSE [label |-> "Params", map |-> params, text |-> <<>>],
     response_box |-> response_text]

DrawOk ==
    /\ pc = "draw"
    /\ frame' = Some(Render)
    /\ pc' = "poll"
    /\ UNCHANGED <<event, exit, terminal, session, queue, executor>>

DrawErr ==
    /\ pc = "draw"
    /\ ReturnErr
    /\ UNCHANGED <<frame, event, terminal, session, queue, executor>>

\* event::poll(200ms): true when an event is available
PollReady ==
    /\ pc = "poll"
    /\ queue # <<>>
    /\ pc' = "read"
    /\ UNCHANGED <<frame, event, exit, terminal, session, queue, executor>>

PollTimeout ==
    /\ pc = "poll"
    /\ queue = <<>>
    /\ pc' = "draw"
    /\ UNCHANGED <<frame, event, exit, terminal, session, queue, executor>>

PollErr ==
    /\ pc = "poll"
    /\ ReturnErr
    /\ UNCHANGED <<frame, event, terminal, session, queue, executor>>

ReadErr ==
    /\ pc = "read"
    /\ ReturnErr
    /\ UNCHANGED <<frame, event, terminal, session, queue, executor>>

\* event::read() returns the oldest waiting event
Read(e) ==
    /\ pc = "read"
    /\ queue # <<>>
    /\ e = Head(queue)
    /\ queue' = Tail(queue)
    /\ event' = Some(e)

\* `if let Event::Key(key)` does not match
NotAKey ==
    /\ \E e \in Events : Read(e) /\ e.type # "Key"
    /\ pc' = "draw"
    /\ UNCHANGED <<frame, exit, terminal, session, executor>>

\* variant: an Escape that arrives during a request cancels it
KeyEsc_abortsRequest ==
    \/ /\ Read(KeyEvent("Esc"))
       /\ pc' = "disable_raw"
       /\ UNCHANGED <<frame, exit, terminal, session, executor>>
    \/ /\ pc = "request"
       /\ queue # <<>>
       /\ Head(queue) = KeyEvent("Esc")
       /\ queue' = Tail(queue)
       /\ event' = Some(KeyEvent("Esc"))
       /\ call' = None
       /\ inflight' = None
       /\ pc' = "disable_raw"
       /\ UNCHANGED <<frame, exit, terminal, session, ncalls, transport>>

KeyEsc ==
    /\ Read(KeyEvent("Esc"))
    /\ pc' = "disable_raw"
    /\ UNCHANGED <<frame, exit, terminal, session, executor>>

\* variant: Up at the first method wraps to the last
KeyUp_wrap ==
    /\ Read(KeyEvent("Up"))
    /\ selected_method' =
          IF selected_method > 0 THEN selected_method - 1
          ELSE Len(methods) - 1
    /\ pc' = "draw"
    /\ UNCHANGED <<frame, exit, terminal, input, headers, params, body,
                   response_text, options_mode, executor>>

KeyUp ==
    /\ Read(KeyEvent("Up"))
    /\ selected_method' =
          IF selected_method > 0 THEN selected_method - 1 ELSE selected_method
    /\ pc' = "draw"
    /\ UNCHANGED <<frame, exit, terminal, input, headers, params, body,
                   response_text, options_mode, executor>>

\* variant: the bound is methods.len() instead of methods.len() - 1
KeyDown_offByOne ==
    /\ Read(KeyEvent("Down"))
    /\ selected_method' =
          IF selected_method < Len(methods) THEN selected_method + 1
          ELSE selected_method
    /\ pc' = "draw"
    /\ UNCHANGED <<frame, exit, terminal, input, headers, params, body,
                   response_text, options_mode, executor>>

KeyDown ==
    /\ Read(KeyEvent("Down"))
    /\ selected_method' =
          IF selected_method < Len(methods) - 1 THEN selected_method + 1
          ELSE selected_method
    /\ pc' = "draw"
    /\ UNCHANGED <<frame, exit, terminal, input, headers, params, body,
                   response_text, options_mode, executor>>

\* variant: the arm also falls through to input.push
KeyH_appends ==
    /\ Read(CharEvent("H"))
    /\ options_mode' = 0
    /\ input' = Append(input, "H")
    /\ pc' = "draw"
    /\ UNCHANGED <<frame, exit, terminal, selected_method, headers, params,
                   body, response_text, executor>>

KeyH ==
    /\ Read(CharEvent("H"))
    /\ options_mode' = 0
    /\ pc' = "draw"
    /\ UNCHANGED <<frame, exit, terminal, input, selected_method, headers,
                   params, body, response_text, executor>>

KeyB ==
    /\ Read(CharEvent("B"))
    /\ options_mode' = 1
    /\ pc' = "draw"
    /\ UNCHANGED <<frame, exit, terminal, input, selected_method, headers,
                   params, body, response_text, executor>>

KeyP ==
    /\ Read(CharEvent("P"))
    /\ options_mode' = 2
    /\ pc' = "draw"
    /\ UNCHANGED <<frame, exit, terminal, input, selected_method, headers,
                   params, body, response_text, executor>>

\* variant: the is_empty test is missing
KeyEnterEmpty_calls ==
    /\ Read(KeyEvent("Enter"))
    /\ input = <<>>
    /\ call' = Some([method |-> methods[selected_method + 1], url |-> input,
                     headers |-> headers, body |-> body])
    /\ inflight' = BuildRequest(methods[selected_method + 1], input, headers,
                                body)
    /\ ncalls' = ncalls + 1
    /\ pc' = "request"
    /\ UNCHANGED <<transport, frame, exit, terminal, session>>

\* Enter, `if !input.is_empty()` false
KeyEnterEmpty ==
    /\ Read(KeyEvent("Enter"))
    /\ input = <<>>
    /\ pc' = "draw"
    /\ UNCHANGED <<frame, exit, terminal, session, executor>>

\* variant: the method is picked with the options index
KeyEnter_byOptionsMode ==
    /\ Read(KeyEvent("Enter"))
    /\ input # <<>>
    /\ call' = Some([method |-> methods[options_mode + 1], url |-> input,
                     headers |-> headers, body |-> body])
    /\ inflight' = BuildRequest(methods[options_mode + 1], input, headers,
                                body)
    /\ ncalls' = ncalls + 1
    /\ pc' = "request"
    /\ UNCHANGED <<transport, frame, exit, terminal, session>>

\* variant: the method is always the first of the list
KeyEnter_firstMethod ==
    /\ Read(KeyEvent("Enter"))
    /\ input # <<>>
    /\ call' = Some([method |-> methods[1], url |-> input,
                     headers |-> headers, body |-> body])
    /\ inflight' = BuildRequest(methods[1], input, headers, body)
    /\ ncalls' = ncalls + 1
    /\ pc' = "request"
    /\ UNCHANGED <<transport, frame, exit, terminal, session>>

\* Enter, URL present: make_request is entered and blocks in send()
KeyEnter ==
    /\ Read(KeyEvent("Enter"))
    /\ input # <<>>
    /\ LET method == methods[selected_method + 1]
           url == input
       IN  /\ call' = Some([method |-> method, url |-> url,
                            headers |-> headers, body |-> body])
           /\ inflight' = BuildRequest(method, url, headers, body)
    /\ ncalls' = ncalls + 1
    /\ pc' = "request"
    /\ UNCHANGED <<transport, frame, exit, terminal, session>>

\* variant: only the placeholder is replaced by a result
RequestReturn_keepsFirst ==
    /\ pc = "request"
    /\ \E outcome \in Outcomes :
          /\ response_text' =
                IF response_text = Placeholder
                THEN make_request(call[1].method, call[1].url,
                                  call[1].headers, call[1].body, outcome)
                ELSE response_text
          /\ transport' = Answer(inflight, outcome)
    /\ call' = None
    /\ inflight' = None
    /\ pc' = "draw"
    /\ UNCHANGED <<frame, event, exit, terminal, input, selected_method,
                   headers, params, body, options_mode, queue, ncalls>>

\* make_request returns and the Enter arm assigns response_text
RequestReturn ==
    /\ pc = "request"
    /\ \E outcome \in Outcomes :
          /\ response_text' = make_request(call[1].method, call[1].url,
                                           call[1].headers, call[1].body,
                                           outcome)
          /\ transport' = Answer(inflight, outcome)
    /\ call' = None
    /\ inflight' = None
    /\ pc' = "draw"
    /\ UNCHANGED <<frame, event, exit, terminal, input, selected_method,
                   headers, params, body, options_mode, queue, ncalls>>

\* variant: after a character the loop polls again without drawing
KeyChar_noRedraw ==
    /\ \E c \in Chars \ {"H", "B", "P"} :
          /\ Read(CharEvent(c))
          /\ input' = Append(input, c)
    /\ pc' = "poll"
    /\ UNCHANGED <<frame, exit, terminal, selected_method, headers, params,
                   body, response_text, options_mode, executor>>

\* variant: in Body mode a character is appended to the body
KeyChar_intoBody ==
    /\ \E c \in Chars \ {"H", "B", "P"} :
          /\ Read(CharEvent(c))
          /\ IF options_mode = 1
             THEN body' = Append(body, c) /\ input' = input
             ELSE input' = Append(input, c) /\ body' = body
    /\ pc' = "draw"
    /\ UNCHANGED <<frame, exit, terminal, selected_method, headers, params,
                   response_text, options_mode, executor>>

\* KeyCode::Char(c), reached only when the three arms above did not match
KeyChar ==
    /\ \E c \in Chars \ {"H", "B", "P"} :
          /\ Read(CharEvent(c))
          /\ input' = Append(input, c)
    /\ pc' = "draw"
    /\ UNCHANGED <<frame, exit, terminal, selected_method, headers, params,
                   body, response_text, options_mode, executor>>

\* variant: Backspace clears the buffer
KeyBackspace_clear ==
    /\ Read(KeyEvent("Backspace"))
    /\ input' = <<>>
    /\ pc' = "draw"
    /\ UNCHANGED <<frame, exit, terminal, selected_method, headers, params,
                   body, response_text, options_mode, executor>>

\* String::pop
KeyBackspace ==
    /\ Read(KeyEvent("Backspace"))
    /\ input' = IF input = <<>> THEN <<>> ELSE SubSeq(input, 1, Len(input) - 1)
    /\ pc' = "draw"
    /\ UNCHANGED <<frame, exit, terminal, selected_method, headers, params,
                   body, response_text, options_mode, executor>>

\* variant: an unhandled key leaves the loop
KeyOther_quits ==
    /\ Read(KeyEvent("Tab"))
    /\ pc' = "disable_raw"
    /\ UNCHANGED <<frame, exit, terminal, session, executor>>

KeyOther ==
    /\ Read(KeyEvent("Tab"))
    /\ pc' = "draw"
    /\ UNCHANGED <<frame, exit, terminal, session, executor>>

----------------------------------------------------------------------------
(* main: teardown (main.rs:153-157) *)

DisableRawModeOk ==
    /\ pc = "disable_raw"
    /\ raw_mode' = FALSE
    /\ raw_releases' = raw_releases + 1
    /\ pc' = "leave_alt"
    /\ UNCHANGED <<frame, event, exit, alt_screen, alt_releases, session,
                   queue, executor>>

DisableRawModeErr ==
    /\ pc = "disable_raw"
    /\ ReturnErr
    /\ UNCHANGED <<frame, event, terminal, session, queue, executor>>

LeaveAlternateScreenOk ==
    /\ pc = "leave_alt"
    /\ alt_screen' = FALSE
    /\ alt_releases' = alt_releases + 1
    /\ pc' = "done"
    /\ exit' = "Ok"
    /\ UNCHANGED <<frame, event, raw_mode, raw_releases, session, queue,
                   executor>>

LeaveAlternateScreenErr ==
    /\ pc = "leave_alt"
    /\ ReturnErr
    /\ UNCHANGED <<frame, event, terminal, session, queue, executor>>

Next ==
    \/ EnableRawModeOk \/ EnableRawModeErr
    \/ EnterAlternateScreenOk \/ EnterAlternateScreenErr
    \/ TerminalNewOk \/ TerminalNewErr
    \/ Arrive
    \/ DrawOk \/ DrawErr
    \/ PollReady \/ PollTimeout \/ PollErr
    \/ ReadErr \/ NotAKey
    \/ KeyEsc \/ KeyUp \/ KeyDown \/ KeyH \/ KeyB \/ KeyP
    \/ KeyEnterEmpty \/ KeyEnter \/ RequestReturn
    \/ KeyChar \/ KeyBackspace \/ KeyOther
    \/ DisableRawModeOk \/ DisableRawModeErr
    \/ LeaveAlternateScreenOk \/ LeaveAlternateScreenErr

Spec == Init /\ [][Next]_vars

----------------------------------------------------------------------------
(* make_request on its own: one call with arbitrary arguments *)

MethodTokens == {"GET", "POST", "PUT", "DELETE", "PATCH",
                 "INVALID", "get", "Post", ""}
Urls == {<<>>, <<"a">>, <<"a", "/">>}
HeaderSets == {{}, {<<"Accept", "*">>}, {<<"Accept", "*">>, <<"X-Id", "7">>}}
Bodies == {<<>>, <<"x">>, <<"{", "x", "}">>}

InitExec ==
    /\ pc = "exec"
    /\ exit = "none"
    /\ raw_mode = FALSE
    /\ alt_screen = FALSE
    /\ raw_releases = 0
    /\ alt_releases = 0
    /\ input = <<>>
    /\ selected_method = 0
    /\ headers = {}
    /\ params = {}
    /\ body = <<>>
    /\ response_text = Placeholder
    /\ options_mode = 0
    /\ queue = <<>>
    /\ event = None
    /\ call \in {Some([method |-> m, url |-> u, headers |-> h, body |-> b]) :
                    m \in MethodTokens, u \in Urls, h \in HeaderSets,
                    b \in Bodies}
    /\ inflight = None
    /\ ncalls = 0
    /\ transport = None
    /\ frame = None

\* the `_ => return "Invalid Method"` arm
ExecInvalid ==
    /\ pc = "exec"
    /\ NewRequest(call[1].method, call[1].url) = None
    /\ \E outcome \in Outcomes :
          response_text' = make_request(call[1].method, call[1].url,
                                        call[1].headers, call[1].body, outcome)
    /\ ncalls' = ncalls + 1
    /\ pc' = "exec_done"
    /\ UNCHANGED <<transport, frame, exit, terminal, input, selected_method,
                   headers, params, body, options_mode, queue, event, call,
                   inflight>>

\* a recognized method: the request is built and handed to send()
ExecBuild ==
    /\ pc = "exec"
    /\ NewRequest(call[1].method, call[1].url) # None
    /\ inflight' = BuildRequest(call[1].method, call[1].url, call[1].headers,
                                call[1].body)
    /\ ncalls' = ncalls + 1
    /\ pc' = "exec_send"
    /\ UNCHANGED <<transport, frame, exit, terminal, session, queue, event,
                   call>>

\* the transport answers and make_request returns
ExecReturn ==
    /\ pc = "exec_send"
    /\ \E outcome \in Outcomes :
          /\ response_text' = make_request(call[1].method, call[1].url,
                                           call[1].headers, call[1].body,
                                           outcome)
          /\ transport' = Answer(inflight, outcome)
    /\ pc' = "exec_done"
    /\ UNCHANGED <<frame, exit, terminal, input, selected_method, headers,
                   params, body, options_mode, queue, event, call, inflight,
                   ncalls>>

NextExec == ExecInvalid \/ ExecBuild \/ ExecReturn

SpecExec == InitExec /\ [][NextExec]_vars

----------------------------------------------------------------------------
(* Properties of the session and of the executor *)

\* the step in which event::read() returns e and the match on it runs
Dispatched(e) ==
    /\ pc = "read"
    /\ queue # <<>>
    /\ Head(queue) = e
    /\ queue' = Tail(queue)
    /\ event' = Some(e)

\* C1: every printable-character keypress, 'H', 'B' and 'P' included,
\* appends exactly that character to the URL Input, so that the buffer is the
\* concatenation of the characters pressed, in order.
C1_EveryCharAppends ==
    [][\A c \in Chars : Dispatched(CharEvent(c)) => input' = Append(input, c)]_vars

\* C2: a Backspace keypress removes exactly the last character of a non-empty
\* URL Input, leaves an empty URL Input empty, and changes no other field.
C2_BackspacePops ==
    [][Dispatched(KeyEvent("Backspace")) =>
          /\ input # <<>> => /\ Len(input') = Len(input) - 1
                             /\ input = input' \o <<input[Len(input)]>>
          /\ input = <<>> => input' = <<>>
          /\ pc' = "draw"
          /\ UNCHANGED <<selected_method, headers, params, body,
                         response_text, options_mode, executor, terminal,
                         exit>>]_vars

C2_Witness ==
    /\ event = Some(KeyEvent("Backspace"))
    /\ pc = "draw"
    /\ Len(input) = MaxLen - 1

\* C3: Enter with an empty URL Input does not invoke the Request Executor
\* and leaves Response Text and every other state field unchanged.
C3_EnterEmptyNoCall ==
    [][(Dispatched(KeyEvent("Enter")) /\ input = <<>>) =>
          /\ pc' = "draw"
          /\ ncalls' = ncalls
          /\ call' = None /\ inflight' = None
          /\ UNCHANGED <<session, terminal, exit>>]_vars

C3_Witness ==
    /\ event = Some(KeyEvent("Enter"))
    /\ pc = "draw"
    /\ input = <<>>
    /\ ncalls = 0
    /\ response_text = Placeholder
    /\ selected_method > 0

\* C4: Enter with a non-empty URL Input invokes the Request Executor exactly
\* once, with the method token at the Method Selection index, the URL Input,
\* the Header Set and the Body Text; Response Text then becomes exactly the
\* string the executor returned, and Method Selection, URL Input and Options
\* View Mode are unchanged.
C4_EnterCallsExecutor ==
    [][/\ (Dispatched(KeyEvent("Enter")) /\ input # <<>>) =>
             /\ pc' = "request"
             /\ ncalls' = ncalls + 1
             /\ call' = Some([method |-> methods[selected_method + 1],
                              url |-> input, headers |-> headers,
                              body |-> body])
             /\ UNCHANGED <<session, terminal, exit>>
       /\ (pc = "request" /\ pc' # "request") =>
             /\ pc' = "draw"
             /\ ncalls' = ncalls
             /\ call # None
             /\ call[1] = [method |-> methods[selected_method + 1],
                           url |-> input, headers |-> headers, body |-> body]
             /\ \E outcome \in Outcomes :
                   response_text' = make_request(methods[selected_method + 1],
                                                 input, headers, body, outcome)
             /\ UNCHANGED <<selected_method, input, options_mode, headers,
                            params, body>>]_vars

C4_Witness ==
    /\ event = Some(KeyEvent("Enter"))
    /\ pc = "draw"
    /\ input # <<>>
    /\ selected_method = 3
    /\ options_mode = 1
    /\ ncalls = 1
    /\ response_text = "ok"

\* C5: for every method index i in 0..4, Down yields i+1 when i < 4 and
\* leaves 4 at 4; Up yields i-1 when i > 0 and leaves 0 at 0.
C5_UpDown ==
    [][\A i \in 0..4 : selected_method = i =>
          /\ Dispatched(KeyEvent("Down")) =>
                selected_method' = (IF i < 4 THEN i + 1 ELSE 4)
          /\ Dispatched(KeyEvent("Up")) =>
                selected_method' = (IF i > 0 THEN i - 1 ELSE 0)]_vars

C5_Witness ==
    /\ event = Some(KeyEvent("Up"))
    /\ pc = "draw"
    /\ selected_method = 0
    /\ input # <<>>
    /\ queue = <<KeyEvent("Down")>>

\* C6: pressing 'H', 'B' or 'P' sets the Options View Mode to Headers, Body
\* or Params and changes nothing else: Method Selection, URL Input, Response
\* Text, Header Set, Param Set and Body Text stay as they were.
C6_ModeKeysOnlyMode ==
    [][\A i \in 1..3 : Dispatched(CharEvent(<<"H", "B", "P">>[i])) =>
          /\ options_mode' = i - 1
          /\ pc' = "draw"
          /\ UNCHANGED <<selected_method, input, response_text, headers,
                         params, body, executor, terminal, exit>>]_vars

C6_Witness ==
    /\ event = Some(CharEvent("P"))
    /\ pc = "draw"
    /\ options_mode = 2
    /\ input # <<>>
    /\ selected_method > 0
    /\ response_text # Placeholder

\* the loop was left through the Escape arm
LeftByEscape == event = Some(KeyEvent("Esc"))

\* C7: Escape terminates the loop and the teardown (leave raw mode, leave
\* alternate screen) then runs exactly once: never twice, and raw mode is not
\* left enabled when the process has returned.
C7_EscapeTeardownOnce ==
    /\ LeftByEscape => pc \in {"disable_raw", "leave_alt", "done"}
    /\ raw_releases <= 1 /\ alt_releases <= 1
    /\ (LeftByEscape /\ pc = "done") =>
          /\ raw_releases = 1 /\ alt_releases = 1
          /\ ~raw_mode /\ ~alt_screen

\* raw mode was acquired by this run
RawAcquired == raw_mode \/ raw_releases > 0

\* C8: on every exit path after raw mode was acquired, abnormal ones
\* included, raw mode and the alternate screen are both released exactly once
\* before the process exits.
C8_ReleasedOnEveryExit ==
    (pc = "done" /\ RawAcquired) =>
        /\ ~raw_mode /\ raw_releases = 1
        /\ ~alt_screen /\ alt_releases = 1

Recognized == {"GET", "POST", "PUT", "DELETE", "PATCH"}

\* C9: for a method token that is not exactly GET, POST, PUT, DELETE or
\* PATCH, whatever the url, headers and body, the Request Executor returns
\* exactly "Invalid Method" and no request is built or sent.
C9_InvalidMethod ==
    call[1].method \notin Recognized =>
        /\ inflight = None
        /\ pc # "exec_send"
        /\ pc = "exec_done" => response_text = InvalidMethod

C9_Witness ==
    /\ pc = "exec_done"
    /\ call[1].method = "get"
    /\ call[1].url # <<>>
    /\ call[1].headers # {}
    /\ call[1].body # <<>>
    /\ response_text = InvalidMethod
    /\ inflight = None

\* C10: the outgoing request carries a body payload if and only if the
\* method is not GET: none for GET; for POST, PUT, DELETE and PATCH the body
\* text verbatim, also when it is the empty string.
C10_BodyIffNotGet ==
    (pc \in {"exec_send", "exec_done"} /\ call[1].method \in Recognized) =>
        /\ inflight # None
        /\ inflight[1].body # None <=> call[1].method # "GET"
        /\ call[1].method = "GET" => inflight[1].body = None
        /\ call[1].method # "GET" => inflight[1].body = Some(call[1].body)

C10_Witness ==
    /\ pc = "exec_done"
    /\ call[1].method = "DELETE"
    /\ call[1].body = <<>>
    /\ inflight # None
    /\ inflight[1].body = Some(<<>>)
    /\ response_text = "ok"

\* C11: for a recognized method the Request Executor returns the response
\* body as text when send and decoding both succeed, and exactly "Failed to
\* make request" when the send or the decoding fails; it returns nothing else
\* and hands no error to its caller.
C11_BodyOrFailed ==
    (pc = "exec_done" /\ call[1].method \in Recognized) =>
        /\ transport # None
        /\ transport[1].kind = "ok" => response_text = transport[1].payload
        /\ transport[1].kind \in {"send_err", "text_err"} =>
              response_text = FailedRequest
        /\ response_text \in Payloads \cup {FailedRequest}
        /\ exit = "none"

C11_Witness ==
    /\ pc = "exec_done"
    /\ call[1].method = "PATCH"
    /\ transport # None
    /\ transport[1].kind = "text_err"
    /\ response_text = FailedRequest

\* C12: at most one request is in flight.  While a Request Executor call is
\* outstanding no input event is processed, nothing is redrawn and no second
\* request is dispatched; an Escape pressed meanwhile does not abort the call
\* and stays pending until the call has returned and Response Text is set.
C12_BlockingRequest ==
    [][pc = "request" =>
          /\ call # None
          /\ event' = event
          /\ frame' = frame
          /\ ncalls' = ncalls
          /\ Len(queue') >= Len(queue)
          /\ SubSeq(queue', 1, Len(queue)) = queue
          /\ pc' \in {"request", "draw"}
          /\ pc' = "request" => UNCHANGED <<session, call, inflight, transport>>
          /\ pc' = "draw" => /\ call' = None
                             /\ queue' = queue
                             /\ transport' # None
                             /\ response_text' = SendAndDecode(transport'[1])]_vars

C12_Witness ==
    /\ pc = "request"
    /\ call # None
    /\ inflight # None
    /\ ncalls = 2
    /\ queue = <<KeyEvent("Esc")>>

\* what request construction reads: everything but the Options View Mode
RequestInputs == <<selected_method, input, headers, body>>

\* the effect of one event on RequestInputs, as a function of RequestInputs
\* and the event alone
RequestInputsAfter(e) ==
    IF e = KeyEvent("Up")
    THEN <<IF selected_method > 0 THEN selected_method - 1 ELSE 0,
           input, headers, body>>
    ELSE IF e = KeyEvent("Down")
    THEN <<IF selected_method < 4 THEN selected_method + 1 ELSE 4,
           input, headers, body>>
    ELSE IF IsChar(e) /\ e.ch \notin {"H", "B", "P"}
    THEN <<selected_method, Append(input, e.ch), headers, body>>
    ELSE IF e = KeyEvent("Backspace") /\ input # <<>>
    THEN <<selected_method, SubSeq(input, 1, Len(input) - 1), headers, body>>
    ELSE RequestInputs

\* C13: the Options View Mode does not affect request construction.  Two
\* sessions fed the same keys, apart from interleaved 'H' / 'B' / 'P'
\* presses, call the Request Executor with the same (method, url, headers,
\* body) on every Enter.  Stated on one session by its unwinding conditions:
\* each event changes RequestInputs as a function of RequestInputs and the
\* event only, a mode key changes none of them and makes no call, and whether
\* a call is made and with which arguments is a function of RequestInputs
\* and the event only.
C13_ModeDoesNotReachRequests ==
    [][/\ \A e \in Events : Dispatched(e) =>
             /\ RequestInputs' = RequestInputsAfter(e)
             /\ (call' # None) <=> (IsEnter(e) /\ input # <<>>)
             /\ call' # None =>
                   call' = Some([method |-> methods[selected_method + 1],
                                 url |-> input, headers |-> headers,
                                 body |-> body])
             /\ (IsChar(e) /\ e.ch \in {"H", "B", "P"}) =>
                   /\ RequestInputs' = RequestInputs
                   /\ call' = None
       /\ (\A e \in Events : ~Dispatched(e)) =>
             /\ RequestInputs' = RequestInputs
             /\ call' \in {call, None}]_vars

C13_Witness ==
    /\ pc = "request"
    /\ event = Some(KeyEvent("Enter"))
    /\ options_mode = 2
    /\ call # None
    /\ call[1].method = "POST"
    /\ call[1].url = <<"a", "/">>

\* C14: in every reachable session state the Method Selection index lies in
\* 0..4, a valid index into GET, POST, PUT, DELETE, PATCH: indexing the list
\* never goes out of bounds and the decrement never goes below zero.
C14_SelectionInRange ==
    /\ selected_method \in 0..(Len(methods) - 1)
    /\ selected_method + 1 \in DOMAIN methods
    /\ call # None => call[1].method \in {methods[i] : i \in DOMAIN methods}

C14_Witness ==
    /\ event = Some(KeyEvent("Down"))
    /\ pc = "draw"
    /\ selected_method = 4
    /\ frame # None
    /\ frame[1].method_box.highlighted = 4

C16_OptionsDataEmpty ==
    /\ headers = {} /\ params = {} /\ body = <<>>
    /\ call # None => call[1].headers = {} /\ call[1].body = <<>>
    /\ inflight # None =>
          /\ inflight[1].headers = {}
          /\ inflight[1].method # "GET" => inflight[1].body = Some(<<>>)
          /\ inflight[1].method = "GET" => inflight[1].body = None

C16_Witness ==
    /\ pc = "request"
    /\ options_mode = 1
    /\ inflight # None
    /\ inflight[1].method = "POST"
    /\ inflight[1].headers = {}
    /\ inflight[1].body = Some(<<>>)

\* make_request calls of the session that have returned
Completed == ncalls - (IF pc = "request" THEN 1 ELSE 0)

\* C17: Response Text is the placeholder "Response will appear here..."
\* while no request has completed, and afterwards exactly the string the
\* most recently completed Request Executor call returned (replaced, never
\* appended to); only Enter with a non-empty URL changes it.
C17_ResponseIsLatestResult ==
    /\ [](/\ Completed = 0 => response_text = Placeholder /\ transport = None
          /\ Completed > 0 => /\ transport # None
                              /\ response_text = SendAndDecode(transport[1]))
    /\ [][response_text' # response_text =>
             /\ pc = "request"
             /\ event = Some(KeyEvent("Enter"))
             /\ input # <<>>
             /\ \E outcome \in Outcomes :
                   response_text' = make_request(call[1].method, call[1].url,
                                                 call[1].headers,
                                                 call[1].body, outcome)]_vars

C17_Witness ==
    /\ pc = "draw"
    /\ ncalls = 2
    /\ Completed = 2
    /\ transport = Some([kind |-> "send_err", payload |-> ""])
    /\ response_text = FailedRequest

\* C18: every Request Executor call of the session passes one of the five
\* recognized method tokens, so the executor's local rejection path is never
\* taken and Response Text never holds "Invalid Method" as its result.
C18_NoLocalRejection ==
    /\ pc = "request" => call # None
    /\ call # None => /\ call[1].method \in Recognized
                      /\ inflight # None
    /\ response_text # Placeholder => transport # None
    /\ response_text = InvalidMethod =>
          transport = Some([kind |-> "ok", payload |-> InvalidMethod])

C18_Witness ==
    /\ pc = "draw"
    /\ event = Some(KeyEvent("Enter"))
    /\ selected_method = 4
    /\ ncalls = 1
    /\ transport # None
    /\ response_text # Placeholder

LoopPcs == {"draw", "poll", "read", "request"}

\* C19: Escape is the only input that ends the loop normally.  No other key,
\* no non-key event and no poll timeout moves the session to the terminal
\* state: each of them leaves the loop running.
C19_OnlyEscapeEndsLoop ==
    [][/\ (pc \in LoopPcs /\ pc' \notin LoopPcs) =>
             \/ Dispatched(KeyEvent("Esc")) /\ pc' = "disable_raw"
             \/ pc' = "done" /\ exit' = "Err"
       /\ Dispatched(KeyEvent("Esc")) => pc' = "disable_raw"
       /\ \A e \in Events \ {KeyEvent("Esc")} : Dispatched(e) =>
             /\ pc' \in {"draw", "request"}
             /\ exit' = "none"
       /\ (pc = "poll" /\ queue = <<>> /\ pc' # pc) =>
             \/ pc' = "draw" /\ exit' = "none"
             \/ pc' = "done" /\ exit' = "Err"]_vars

C19_Witness ==
    /\ event = Some(KeyEvent("Tab"))
    /\ pc = "poll"
    /\ exit = "none"
    /\ raw_mode /\ alt_screen
    /\ ncalls = 1

====
